---- MODULE Spec2Model ----
(***************************************************************************)
(* Model of yatrie: Node / Trie (src/yatrie/trie.py).                      *)
(*                                                                         *)
(* A Node object is identified by the path of symbols leading to it from   *)
(* the root; its parent is the node one symbol shorter.  `children` keeps  *)
(* the insertion order of the children dict as a sequence of symbols.      *)
(***************************************************************************)
EXTENDS Integers, Sequences, FiniteSets, TLC


\* Bounds of the model.
MaxLen == 2
MaxOps == 4

Symbols == {"a", "b"}
Values == {"v1", "v2"}
\* Python's None as a stored value / returned value.
None == "None"
\* _find's None result (no node), kept apart from every real path.
NoNode == <<"None">>

\* The keys used: the spine <<>>, a, aa, ... and, at each node of the spine,
\* the sibling b (only the last symbol of a key may differ from "a").
OnSpine(k) == \A i \in 1..(Len(k) - 1) : k[i] = "a"

Keys == {k \in UNION {[1..n -> Symbols] : n \in 0..MaxLen} : OnSpine(k)}
\* Keys asked of iter_prefixes may run past every stored key.
QueryKeys ==
    {k \in UNION {[1..n -> Symbols] : n \in 0..(MaxLen + 1)} : OnSpine(k)}

\* nodes: the tree; prev: the tree before the last operation; op, err, ret:
\* the last operation, the exception it raised ("none" if it returned) and
\* what it returned; steps: calls of Trie methods performed; only_sets: no
\* delete, clear or popitem has been called so far.  buf: the list that is
\* the default value of _generator's `keys` parameter, one object shared by
\* every traversal started by iterkeys/itervalues/iteritems; gen: the
\* generator objects created so far, by name.
VARIABLES nodes, prev, op, err, ret, steps, only_sets, buf, gen

vars == <<nodes, prev, op, err, ret, steps, only_sets, buf, gen>>

\* The generator objects a run may create.
Gens == {"g1", "g2"}

Range(s) == {s[i] : i \in 1..Len(s)}

Parent(p) == SubSeq(p, 1, Len(p) - 1)

\* Node.__init__ with value=None: no children, n_items 0.
NewNode == [value |-> None, children |-> <<>>, n_items |-> 0]

\* node.children.get(part)
ChildGet(t, node, part) ==
    IF part \in Range(t[node].children) THEN Append(node, part) ELSE NoNode

\* Node.update_n_items: every ancestor's n_items is changed by amt
\* (amt is negative for op '-'); the node itself is not touched.
RECURSIVE update_n_items(_, _, _)
update_n_items(t, node, amt) ==
    IF node = <<>> THEN t
    ELSE LET parent == Parent(node)
         IN update_n_items([t EXCEPT ![parent].n_items = @ + amt], parent, amt)

\* Trie._find: descend along key, None as soon as a part is missing.
RECURSIVE FindFrom(_, _, _)
FindFrom(t, node, rest) ==
    IF rest = <<>> THEN node
    ELSE LET next_node == ChildGet(t, node, Head(rest))
         IN IF next_node = NoNode THEN NoNode
            ELSE FindFrom(t, next_node, Tail(rest))

_find(t, key) == FindFrom(t, <<>>, key)

\* The descent loop of Trie.__setitem__.  Creating a child evaluates
\* `parent and value` in Node.__init__, i.e. bool(parent) = len(parent),
\* which raises ValueError when the parent's n_items is negative.
RECURSIVE SetDescend(_, _, _)
SetDescend(t, node, rest) ==
    IF rest = <<>> THEN [t |-> t, node |-> node, err |-> "none"]
    ELSE LET part == Head(rest)
             next_node == ChildGet(t, node, part)
         IN IF next_node # NoNode
            THEN SetDescend(t, next_node, Tail(rest))
            ELSE IF t[node].n_items < 0
            THEN [t |-> t, node |-> node, err |-> "ValueError"]
            ELSE LET child == Append(node, part)
                     t2 == [q \in DOMAIN t \cup {child} |->
                              IF q = child THEN NewNode
                              ELSE IF q = node
                                   THEN [t[q] EXCEPT !.children = Append(@, part)]
                                   ELSE t[q]]
                 IN SetDescend(t2, child, Tail(rest))

\* Variant of __setitem__ that assigns the value to every node it walks
\* through (the assignment moved into the loop).
setitem_path(t, key, value) ==
    LET d == SetDescend(t, <<>>, key)
    IN IF d.err # "none" THEN [t |-> d.t, err |-> d.err]
       ELSE [t |-> update_n_items(
                     [q \in DOMAIN d.t |->
                        IF q # <<>> /\ Len(q) <= Len(key)
                              /\ SubSeq(key, 1, Len(q)) = q
                        THEN [d.t[q] EXCEPT !.value = value]
                        ELSE IF q = d.node
                             THEN [d.t[q] EXCEPT !.value = value]
                             ELSE d.t[q]],
                     d.node, 1),
             err |-> "none"]

\* Trie.__setitem__
setitem(t, key, value) ==
    LET d == SetDescend(t, <<>>, key)
    IN IF d.err # "none" THEN [t |-> d.t, err |-> d.err]
       ELSE [t |-> update_n_items([d.t EXCEPT ![d.node].value = value], d.node, 1),
             err |-> "none"]

\* Variant of __getitem__ without the `node.value is None` test.
getitem_novalue(t, key) ==
    LET node == _find(t, key)
    IN IF node = NoNode
       THEN [err |-> "KeyError", ret |-> None]
       ELSE [err |-> "none", ret |-> t[node].value]

\* Trie.__getitem__
getitem(t, key) ==
    LET node == _find(t, key)
    IN IF node = NoNode \/ t[node].value = None
       THEN [err |-> "KeyError", ret |-> None]
       ELSE [err |-> "none", ret |-> t[node].value]

\* Trie.__contains__
contains(t, key) == _find(t, key) # NoNode

\* Node.__len__ / Trie.__len__: Python rejects a negative __len__.
len(t) ==
    IF t[<<>>].n_items < 0 THEN [err |-> "ValueError", ret |-> 0]
    ELSE [err |-> "none", ret |-> t[<<>>].n_items]

\* Variant of __delitem__ that ignores a missing path instead of raising.
delitem_silent(t, key) ==
    LET node == _find(t, key)
    IN IF node = NoNode THEN [t |-> t, err |-> "none"]
       ELSE IF t[node].children = <<>>
       THEN IF node = <<>> THEN [t |-> t, err |-> "AttributeError"]
            ELSE LET parent == Parent(node)
                     part == key[Len(key)]
                     t2 == [q \in DOMAIN t \ {node} |->
                              IF q = parent
                              THEN [t[q] EXCEPT !.children =
                                      SelectSeq(@, LAMBDA c : c # part)]
                              ELSE t[q]]
                 IN [t |-> update_n_items(t2, node, -1), err |-> "none"]
       ELSE [t |-> t, err |-> "none"]

\* Trie.__delitem__.  A missing path raises KeyError.  A node without
\* children is removed from its parent's children and the ancestors'
\* n_items are decremented; for the root `node.parent` is None and the
\* attribute access raises AttributeError.  A node with children is left
\* as it is.
delitem(t, key) ==
    LET node == _find(t, key)
    IN IF node = NoNode THEN [t |-> t, err |-> "KeyError"]
       ELSE IF t[node].children = <<>>
       THEN IF node = <<>> THEN [t |-> t, err |-> "AttributeError"]
            ELSE LET parent == Parent(node)
                     part == key[Len(key)]
                     t2 == [q \in DOMAIN t \ {node} |->
                              IF q = parent
                              THEN [t[q] EXCEPT !.children =
                                      SelectSeq(@, LAMBDA c : c # part)]
                              ELSE t[q]]
                 IN [t |-> update_n_items(t2, node, -1), err |-> "none"]
       ELSE [t |-> t, err |-> "none"]

\* Node.clear on the root (Trie.clear): the children dict is emptied, the
\* root has no ancestors to update, n_items becomes 0; value is untouched.
clear(t) ==
    LET root == <<>>
        t2 == (root :> [t[root] EXCEPT !.children = <<>>])
        t3 == update_n_items(t2, root, -(t2[root].n_items))
    IN [t3 EXCEPT ![root].n_items = 0]


(***************************************************************************)
(* Generator objects.  A suspended generator keeps references to Node      *)
(* objects and, inside a `for ... in node.children.items()` loop, a dict   *)
(* iterator.  A frame refers to its node by path while the node is         *)
(* attached to the root (live); when the node is detached by __delitem__   *)
(* or clear the frame keeps the tree as it was (tree), since nothing can   *)
(* reach a detached node to change it.                                     *)
(*                                                                         *)
(* Dict iterator of a frame in its loop: used is len(dict) when the        *)
(* iterator was created, cnt the items it has returned, pos the entries it *)
(* has passed, tail the entries not yet passed (Dummy for a deleted one),  *)
(* free the entries that will still be inserted before pos after the dict  *)
(* was cleared.  A dict is not resized before its sixth insertion, and     *)
(* entries deleted before the iterator was created are not counted in pos: *)
(* both are out of reach while fewer than five changes of the tree         *)
(* surround a suspended traversal.                                         *)
(***************************************************************************)

Dummy == "<dummy>"

\* The frame of a call of _generator (or the position of iter_prefixes) on
\* node, before its first statement.
NewFrame(node, live, tree) ==
    [node |-> node, pc |-> "start", live |-> live, tree |-> tree,
     used |-> 0, cnt |-> 0, pos |-> 0, free |-> 0, tail |-> <<>>]

\* The tree a frame reads its node from.
FrameTree(f, t) == IF f.live THEN t ELSE f.tree

\* Variant of keys.pop(-1) that removes the first element.
keys_pop_first(b) == Tail(b)

\* keys.pop(-1)
keys_pop(b) == SubSeq(b, 1, Len(b) - 1)

\* One next() on a _generator: run the frames on the stack until the next
\* yield, until the outermost frame returns (res "stop") or until a dict
\* iterator raises RuntimeError because its dict changed size or has more
\* entries than it had.  keys.append / keys.pop act on the buffer b; an
\* exception unwinds the frames without any pop.
RECURSIVE GenRun(_, _, _)
GenRun(t, b, st) ==
    IF st = <<>>
    THEN [stack |-> <<>>, buf |-> b, res |-> "stop", item |-> <<>>]
    ELSE LET top == st[Len(st)]
             below == SubSeq(st, 1, Len(st) - 1)
             n == FrameTree(top, t)[top.node]
         IN IF top.pc = "start" /\ n.value # None
            THEN [stack |-> Append(below, [top EXCEPT !.pc = "yield"]),
                  buf |-> b, res |-> "yield", item |-> <<b, n.value>>]
            ELSE IF top.pc \in {"start", "yield"}
            THEN GenRun(t, b, Append(below,
                    [top EXCEPT !.pc = "loop", !.used = Len(n.children),
                                !.tail = n.children]))
            ELSE IF Len(n.children) # top.used
            THEN [stack |-> <<>>, buf |-> b, res |-> "RuntimeError", item |-> <<>>]
            ELSE IF top.tail # <<>> /\ Head(top.tail) = Dummy
            THEN GenRun(t, b, Append(below,
                    [top EXCEPT !.tail = Tail(@), !.pos = @ + 1]))
            ELSE IF top.tail = <<>>
            THEN IF below = <<>>
                 THEN [stack |-> <<>>, buf |-> b, res |-> "stop", item |-> <<>>]
                 ELSE GenRun(t, keys_pop(b), below)
            ELSE IF top.cnt = top.used
            THEN [stack |-> <<>>, buf |-> b, res |-> "RuntimeError", item |-> <<>>]
            ELSE LET k == Head(top.tail)
                 IN GenRun(t, Append(b, k),
                       Append(Append(below,
                                 [top EXCEPT !.tail = Tail(@), !.pos = @ + 1,
                                             !.cnt = @ + 1]),
                              NewFrame(Append(top.node, k), top.live, top.tree)))

\* A _generator consumed without interruption from the frames st, as
\* tuple(...), list(...) and set(...) consume it: the items it yields.
RECURSIVE Drain(_, _, _, _)
Drain(t, b, st, out) ==
    LET r == GenRun(t, b, st)
    IN IF r.res = "yield"
       THEN Drain(t, r.buf, r.stack, Append(out, r.item))
       ELSE [out |-> out, buf |-> r.buf, res |-> r.res]

\* Trie._generator with keyfactory = tuple, called on node with the path
\* buffer keys and consumed to the end: pre-order (key, value) pairs.
_generator(t, node, keys) ==
    Drain(t, keys, <<NewFrame(node, TRUE, <<>>)>>, <<>>).out

\* Variant of find_prefix that starts from an empty path buffer instead of
\* list(key).
find_prefix_relative(t, key) ==
    LET node == _find(t, key)
    IN IF node = NoNode THEN [none |-> TRUE, keys |-> <<>>]
       ELSE LET g == _generator(t, node, <<>>)
            IN [none |-> FALSE, keys |-> [i \in 1..Len(g) |-> g[i][1]]]

\* Trie.find_prefix: None when key's node does not exist, else the tuple of
\* keys generated below it starting from the buffer list(key).
find_prefix(t, key) ==
    LET node == _find(t, key)
    IN IF node = NoNode THEN [none |-> TRUE, keys |-> <<>>]
       ELSE LET g == _generator(t, node, key)
            IN [none |-> FALSE, keys |-> [i \in 1..Len(g) |-> g[i][1]]]

\* Variant of the iter_prefixes loop that tests the value of the node it
\* leaves instead of the node it enters.
RECURSIVE PrefixRun_stale(_, _, _)
PrefixRun_stale(t, key, f) ==
    LET i == Len(f.node)
        tt == FrameTree(f, t)
    IN IF i = Len(key)
       THEN [stack |-> <<>>, res |-> "stop", item |-> <<>>]
       ELSE LET next_node == ChildGet(tt, f.node, key[i + 1])
                f2 == [f EXCEPT !.node = next_node]
            IN IF next_node = NoNode
               THEN [stack |-> <<>>, res |-> "stop", item |-> <<>>]
               ELSE IF tt[f.node].value # None
               THEN [stack |-> <<f2>>, res |-> "yield",
                     item |-> <<next_node, tt[f.node].value>>]
               ELSE PrefixRun_stale(t, key, f2)

\* One next() on Trie.iter_prefixes(key) with KeyFactory = tuple.  f.node
\* is the node reached (next_node while suspended at the yield), and
\* `parts` is its path; the loop ends with the key or at the first part
\* without a child.
RECURSIVE PrefixRun(_, _, _)
PrefixRun(t, key, f) ==
    LET i == Len(f.node)
        tt == FrameTree(f, t)
    IN IF i = Len(key)
       THEN [stack |-> <<>>, res |-> "stop", item |-> <<>>]
       ELSE LET next_node == ChildGet(tt, f.node, key[i + 1])
                f2 == [f EXCEPT !.node = next_node]
            IN IF next_node = NoNode
               THEN [stack |-> <<>>, res |-> "stop", item |-> <<>>]
               ELSE IF tt[next_node].value # None
               THEN [stack |-> <<f2>>, res |-> "yield",
                     item |-> <<next_node, tt[next_node].value>>]
               ELSE PrefixRun(t, key, f2)

\* What a change of the tree from told to tnew (cleared: by clear) does to a
\* suspended frame: a frame on a detached node keeps told; the dict
\* iterator of a frame on a node whose children changed sees the deleted
\* entry as a dummy and the inserted entry at the end.
AdjustFrame(f, told, tnew, cleared) ==
    IF ~f.live THEN f
    ELSE IF cleared
    THEN IF f.node # <<>> THEN [f EXCEPT !.live = FALSE, !.tree = told]
         ELSE IF f.pc = "loop" THEN [f EXCEPT !.free = f.pos, !.tail = <<>>]
         ELSE f
    ELSE IF f.node \notin DOMAIN tnew
    THEN [f EXCEPT !.live = FALSE, !.tree = told]
    ELSE IF f.pc = "loop"
    THEN LET oc == told[f.node].children
             nc == tnew[f.node].children
             added == SelectSeq(nc, LAMBDA c : c \notin Range(oc))
             tail2 == [j \in 1..Len(f.tail) |->
                         IF f.tail[j] # Dummy /\ f.tail[j] \notin Range(nc)
                         THEN Dummy ELSE f.tail[j]]
         IN IF added = <<>> THEN [f EXCEPT !.tail = tail2]
            ELSE IF f.free > 0 THEN [f EXCEPT !.tail = tail2, !.free = @ - 1]
            ELSE [f EXCEPT !.tail = tail2 \o added]
    ELSE f

\* The generator objects after the tree changed; stable records that the
\* tree has not changed since the generator was created.
Adjust(gs, told, tnew, cleared) ==
    [g \in DOMAIN gs |->
        [gs[g] EXCEPT
            !.stack = [j \in 1..Len(@) |-> AdjustFrame(@[j], told, tnew, cleared)],
            !.stable = @ /\ tnew = told]]

\* A generator has run its first statement.
Started(G) == G.stack # <<NewFrame(<<>>, TRUE, <<>>)>>

\* The generator objects after someone other than g changed the shared
\* buffer from b to b2; alone records that a traversal found the buffer
\* empty and was the only one to touch it.
Disturb(gs, g, b, b2) ==
    [h \in DOMAIN gs |->
        IF h # g /\ b2 # b /\ gs[h].state = "live" /\ Started(gs[h])
        THEN [gs[h] EXCEPT !.alone = FALSE]
        ELSE gs[h]]

\* Trie.__iter__ returns self.iterkeys().
trie_iter == "iterkeys"

\* MutableMapping.popitem, which Trie inherits: key = next(iter(self))
\* (KeyError on StopIteration), value = self[key], del self[key].  The
\* generator made by iter(self) is dropped at its first yield, with its
\* path still in the shared buffer.
popitem(t, b) ==
    LET r == GenRun(t, b, <<NewFrame(<<>>, TRUE, <<>>)>>)
    IN IF r.res # "yield"
       THEN [t |-> t, buf |-> r.buf, err |-> "KeyError", ret |-> None]
       ELSE LET key == r.item[1]
                v == getitem(t, key)
                d == delitem(t, key)
            IN IF v.err # "none"
               THEN [t |-> t, buf |-> r.buf, err |-> v.err, ret |-> None]
               ELSE IF d.err # "none"
               THEN [t |-> d.t, buf |-> r.buf, err |-> d.err, ret |-> None]
               ELSE [t |-> d.t, buf |-> r.buf, err |-> "none",
                     ret |-> <<key, v.ret>>]

Init ==
    /\ nodes = (<<>> :> NewNode)
    /\ prev = (<<>> :> NewNode)
    /\ op = [name |-> "init", key |-> <<>>, value |-> None]
    /\ err = "none"
    /\ ret = None
    /\ steps = 0
    /\ only_sets = TRUE
    /\ buf = <<>>
    /\ gen = <<>>

Set(key, value) ==
    /\ steps < MaxOps
    /\ LET r == setitem(nodes, key, value)
       IN /\ nodes' = r.t
          /\ err' = r.err
          /\ gen' = Adjust(gen, nodes, r.t, FALSE)
    /\ prev' = nodes
    /\ op' = [name |-> "set", key |-> key, value |-> value]
    /\ ret' = None
    /\ steps' = steps + 1
    /\ UNCHANGED <<only_sets, buf>>

Get(key) ==
    /\ LET r == getitem(nodes, key)
       IN /\ err' = r.err
          /\ ret' = r.ret
    /\ prev' = nodes
    /\ op' = [name |-> "get", key |-> key, value |-> None]
    /\ steps < MaxOps
    /\ steps' = steps + 1
    /\ UNCHANGED <<nodes, only_sets, buf, gen>>

Del(key) ==
    /\ steps < MaxOps
    /\ LET r == delitem(nodes, key)
       IN /\ nodes' = r.t
          /\ err' = r.err
          /\ gen' = Adjust(gen, nodes, r.t, FALSE)
    /\ prev' = nodes
    /\ op' = [name |-> "del", key |-> key, value |-> None]
    /\ ret' = None
    /\ steps' = steps + 1
    /\ only_sets' = FALSE
    /\ UNCHANGED buf

Clear ==
    /\ steps < MaxOps
    /\ nodes' = clear(nodes)
    /\ gen' = Adjust(gen, nodes, clear(nodes), TRUE)
    /\ prev' = nodes
    /\ op' = [name |-> "clear", key |-> <<>>, value |-> None]
    /\ err' = "none"
    /\ ret' = None
    /\ steps' = steps + 1
    /\ only_sets' = FALSE
    /\ UNCHANGED buf

Contains(key) ==
    /\ ret' = contains(nodes, key)
    /\ err' = "none"
    /\ prev' = nodes
    /\ op' = [name |-> "contains", key |-> key, value |-> None]
    /\ steps < MaxOps
    /\ steps' = steps + 1
    /\ UNCHANGED <<nodes, only_sets, buf, gen>>

Length ==
    /\ LET r == len(nodes)
       IN /\ err' = r.err
          /\ ret' = r.ret
    /\ prev' = nodes
    /\ op' = [name |-> "len", key |-> <<>>, value |-> None]
    /\ steps < MaxOps
    /\ steps' = steps + 1
    /\ UNCHANGED <<nodes, only_sets, buf, gen>>

FindPrefix(key) ==
    /\ ret' = find_prefix(nodes, key)
    /\ err' = "none"
    /\ prev' = nodes
    /\ op' = [name |-> "find_prefix", key |-> key, value |-> None]
    /\ steps < MaxOps
    /\ steps' = steps + 1
    /\ UNCHANGED <<nodes, only_sets, buf, gen>>

PopItem ==
    /\ steps < MaxOps
    /\ LET r == popitem(nodes, buf)
       IN /\ nodes' = r.t
          /\ buf' = r.buf
          /\ err' = r.err
          /\ ret' = r.ret
          /\ gen' = Disturb(Adjust(gen, nodes, r.t, FALSE), "", buf, r.buf)
    /\ prev' = nodes
    /\ op' = [name |-> "popitem", key |-> <<>>, value |-> None]
    /\ steps' = steps + 1
    /\ only_sets' = FALSE

Next ==
    \/ \E key \in Keys, value \in Values : Set(key, value)
    \/ \E key \in Keys : Del(key)
    \/ Clear
    \/ PopItem
    \/ \E key \in Keys : Get(key)
    \/ \E key \in Keys : Contains(key)
    \/ Length
    \/ \E key \in Keys : FindPrefix(key)

Spec == Init /\ [][Next]_vars

(***************************************************************************)
(* Generators consumed step by step.  A trie is constructed from an        *)
(* initial sequence of keys; generator objects are then created, advanced  *)
(* with next() and possibly dropped before they are exhausted.             *)
(***************************************************************************)

MaxInit == 3
MaxMut == 2
MaxWalkInit == 2

\* Trie.__init__: an empty root, then update() sets every given item.
RECURSIVE BuildTrie(_, _)
BuildTrie(t, ks) ==
    IF ks = <<>> THEN t
    ELSE BuildTrie(setitem(t, Head(ks), "v1").t, Tail(ks))

InitTries ==
    {BuildTrie(<<>> :> NewNode, ks) :
        ks \in UNION {[1..n -> Keys] : n \in 0..MaxInit}}

\* What iterkeys / itervalues / iteritems make of a generated pair;
\* iter_prefixes yields the pair.
Project(kind, item) ==
    IF kind = "iterkeys" THEN item[1]
    ELSE IF kind = "itervalues" THEN item[2]
    ELSE item

IterKinds == {"iterkeys", "itervalues", "iteritems"}

InitIter ==
    /\ nodes \in InitTries
    /\ prev = nodes
    /\ op = [name |-> "init", key |-> <<>>, value |-> None]
    /\ err = "none"
    /\ ret = None
    /\ steps = 0
    /\ only_sets = TRUE
    /\ buf = <<>>
    /\ gen = <<>>

\* it = t.iterkeys() (or itervalues, iteritems, iter_prefixes(key)): a
\* generator object is made and nothing runs yet.
GenStart(g, kind, key) ==
    /\ g \notin DOMAIN gen
    /\ gen' = gen @@ (g :> [state |-> "live", kind |-> kind, key |-> key,
                            stack |-> <<NewFrame(<<>>, TRUE, <<>>)>>,
                            out |-> <<>>, stable |-> TRUE, alone |-> TRUE])
    /\ UNCHANGED <<nodes, prev, op, err, ret, steps, only_sets, buf>>

\* next(it): up to the next yield, StopIteration or RuntimeError; a
\* generator that has ended raises StopIteration again.  out, stable and
\* alone are records of the run, not part of the generator object.
GenNext(g) ==
    /\ g \in DOMAIN gen
    /\ gen[g].state \in {"live", "done", "error"}
    /\ LET G == gen[g]
           r == IF G.state # "live"
                THEN [stack |-> <<>>, buf |-> buf, res |-> "stop", item |-> <<>>]
                ELSE IF G.kind = "iter_prefixes"
                THEN PrefixRun(nodes, G.key, G.stack[1]) @@ [buf |-> buf]
                ELSE GenRun(nodes, buf, G.stack)
           G2 == [G EXCEPT
                    !.stack = r.stack,
                    !.state = IF G.state # "live" THEN @
                              ELSE IF r.res = "yield" THEN "live"
                              ELSE IF r.res = "stop" THEN "done" ELSE "error",
                    !.out = IF r.res = "yield"
                            THEN Append(@, Project(G.kind, r.item)) ELSE @,
                    !.alone = IF Started(G) \/ G.kind = "iter_prefixes"
                              THEN @ ELSE buf = <<>>]
       IN /\ buf' = r.buf
          /\ gen' = Disturb([gen EXCEPT ![g] = G2], g, buf, r.buf)
          /\ err' = IF r.res = "yield" THEN "none"
                    ELSE IF r.res = "stop" THEN "StopIteration" ELSE r.res
          /\ ret' = IF r.res = "yield" THEN Project(G.kind, r.item) ELSE None
          /\ op' = [name |-> G.kind, key |-> G.key, value |-> None]
    /\ prev' = nodes
    /\ UNCHANGED <<nodes, steps, only_sets>>

\* The generator is dropped before exhaustion: GeneratorExit is raised at
\* the yield it is suspended on and no pending keys.pop runs.
GenDrop(g) ==
    /\ g \in DOMAIN gen
    /\ gen[g].state = "live"
    /\ gen' = [gen EXCEPT ![g] = [@ EXCEPT !.stack = <<>>, !.state = "dropped"]]
    /\ UNCHANGED <<nodes, prev, op, err, ret, steps, only_sets, buf>>

\* Two traversals of one trie: g2 is the one created second.
NextIter ==
    \/ \E kind \in IterKinds : GenStart("g1", kind, <<>>)
    \/ \E kind \in IterKinds : "g1" \in DOMAIN gen /\ GenStart("g2", kind, <<>>)
    \/ \E g \in Gens : GenNext(g)
    \/ \E g \in Gens : GenDrop(g)

SpecIter == InitIter /\ [][NextIter]_vars

\* One generator next to MaxMut calls of Spec, on a trie constructed from
\* up to MaxWalkInit keys.
WalkTries ==
    {BuildTrie(<<>> :> NewNode, ks) :
        ks \in UNION {[1..n -> Keys] : n \in 0..MaxWalkInit}}

\* The calls that constructed the trie are counted as performed, MaxMut
\* further calls remain.
InitWalk ==
    /\ nodes \in WalkTries
    /\ prev = nodes
    /\ op = [name |-> "init", key |-> <<>>, value |-> None]
    /\ err = "none"
    /\ ret = None
    /\ steps = MaxOps - MaxMut
    /\ only_sets = TRUE
    /\ buf = <<>>
    /\ gen = <<>>

\* A traversal and the calls of Spec.
NextWalk ==
    \/ Next
    \/ \E kind \in IterKinds : GenStart("g1", kind, <<>>)
    \/ GenNext("g1")

SpecWalk == InitWalk /\ [][NextWalk]_vars

\* An iter_prefixes generator and the calls of Spec.
NextPrefixes ==
    \/ Next
    \/ \E key \in QueryKeys : GenStart("g1", "iter_prefixes", key)
    \/ GenNext("g1")

SpecPrefixes == InitWalk /\ [][NextPrefixes]_vars

(***************************************************************************)
(* Vocabulary of the properties.                                           *)
(***************************************************************************)

EmptyTrie == (<<>> :> NewNode)

IsPrefix(p, k) == Len(p) <= Len(k) /\ SubSeq(k, 1, Len(p)) = p

IsProperPrefix(p, k) == Len(p) < Len(k) /\ SubSeq(k, 1, Len(p)) = p

\* Every symbol of k is found in the children of the node before it.
PathExists(t, k) ==
    \A i \in 1..Len(k) :
        /\ SubSeq(k, 1, i - 1) \in DOMAIN t
        /\ k[i] \in Range(t[SubSeq(k, 1, i - 1)].children)

\* k's terminal node is in the tree and holds a value.
HoldsValue(t, k) == PathExists(t, k) /\ k \in DOMAIN t /\ t[k].value # None

\* The keys that currently hold a value.
StoredKeys(t) == {k \in Keys : HoldsValue(t, k)}

\* The nodes of the tree are exactly the paths reachable through children.
TreeShape ==
    /\ <<>> \in DOMAIN nodes
    /\ \A p \in DOMAIN nodes : PathExists(nodes, p)
    /\ \A p \in DOMAIN nodes : \A i \in 1..Len(nodes[p].children) :
          /\ Append(p, nodes[p].children[i]) \in DOMAIN nodes
          /\ \A j \in 1..Len(nodes[p].children) :
                nodes[p].children[i] = nodes[p].children[j] => i = j

(***************************************************************************)
(* C1..C10: the map contract and the prefix queries.                       *)
(***************************************************************************)

\* C1: after any sequence of set calls, len(trie) is the number of distinct
\* keys that hold a value, and a set on a key that already holds a value
\* leaves len and every node's count unchanged.
C1_LenCountsDistinctKeys ==
    only_sets =>
        /\ len(nodes) = [err |-> "none", ret |-> Cardinality(StoredKeys(nodes))]
        /\ (op.name = "set" /\ HoldsValue(prev, op.key)) =>
              /\ len(nodes) = len(prev)
              /\ \A q \in DOMAIN prev : nodes[q].n_items = prev[q].n_items

\* C2: set(k, v) immediately followed by get(k) returns v, from every
\* reachable state and for every key and value.
C2_SetThenGet ==
    op.name = "set" =>
        getitem(nodes, op.key) = [err |-> "none", ret |-> op.value]

\* C3: contains(key) is true iff descent along key succeeds and the
\* terminal node holds a value; a valueless prefix is not contained.
C3_ContainsIffValue ==
    /\ \A k \in Keys : contains(nodes, k) <=> HoldsValue(nodes, k)
    /\ op.name = "contains" => (ret <=> HoldsValue(prev, op.key))

\* C4: delete(k) of a key that holds a value and whose node has no children
\* makes contains(k) false and get(k) fail with KeyError, and len is one
\* less than before.
C4_DeleteLeafKey ==
    (op.name = "del" /\ HoldsValue(prev, op.key)
        /\ prev[op.key].children = <<>>) =>
        /\ err = "none"
        /\ ~contains(nodes, op.key)
        /\ getitem(nodes, op.key).err = "KeyError"
        /\ len(prev).err = "none" =>
              len(nodes) = [err |-> "none", ret |-> len(prev).ret - 1]

\* C5: delete(k) of a stored key k that is a proper prefix of a stored key
\* k2 clears only k's value: k is no longer contained, k2 still is with the
\* same value, and the counts above k are decremented.
C5_DeleteInnerKey ==
    (op.name = "del" /\ HoldsValue(prev, op.key)
        /\ \E k2 \in StoredKeys(prev) : IsProperPrefix(op.key, k2)) =>
        /\ ~contains(nodes, op.key)
        /\ getitem(nodes, op.key).err = "KeyError"
        /\ \A k2 \in StoredKeys(prev) : IsProperPrefix(op.key, k2) =>
              /\ contains(nodes, k2)
              /\ getitem(nodes, k2) = getitem(prev, k2)
        /\ \A q \in DOMAIN prev : IsProperPrefix(q, op.key) =>
              nodes[q].n_items = prev[q].n_items - 1

\* C6: get(key) raises KeyError exactly when a symbol of key is missing on
\* the path from the root or the terminal node holds no value, otherwise it
\* returns the terminal node's value; a failing get leaves the trie
\* unchanged.
C6_GetNotFound ==
    op.name = "get" =>
        /\ err \in {"none", "KeyError"}
        /\ err = "KeyError" <=>
              (~PathExists(prev, op.key) \/ prev[op.key].value = None)
        /\ err = "none" => ret = prev[op.key].value
        /\ err = "KeyError" => nodes = prev

\* A get that failed on a node that exists but holds no value.
C6_Witness ==
    /\ op.name = "get"
    /\ err = "KeyError"
    /\ PathExists(prev, op.key)
    /\ nodes # EmptyTrie

\* C7: delete(key) on a key whose path does not exist raises KeyError and
\* changes no node, value, children map or count.
C7_DeleteMissingPath ==
    (op.name = "del" /\ ~PathExists(prev, op.key)) =>
        /\ err = "KeyError"
        /\ nodes = prev

\* A delete of a missing path on a trie that stores keys.
C7_Witness ==
    /\ op.name = "del"
    /\ ~PathExists(prev, op.key)
    /\ Cardinality(StoredKeys(prev)) >= 2

\* C8: clear() leaves the trie equal to a freshly constructed one: len is 0
\* and iterkeys, itervalues and iteritems yield nothing.
C8_ClearEmpties ==
    op.name = "clear" =>
        /\ len(nodes) = [err |-> "none", ret |-> 0]
        /\ _generator(nodes, <<>>, buf) = <<>>
        /\ nodes = EmptyTrie

\* The (prefix, value) pairs of the non-empty prefixes of k whose node is
\* reachable and holds a value, by increasing length.
StoredPrefixes(t, k) ==
    LET lens == SelectSeq([i \in 1..Len(k) |-> i],
                          LAMBDA i : HoldsValue(t, SubSeq(k, 1, i)))
    IN [j \in 1..Len(lens) |->
          <<SubSeq(k, 1, lens[j]), t[SubSeq(k, 1, lens[j])].value>>]

\* C9: iter_prefixes(key), on a trie that is not changed while it runs,
\* yields (prefix, value) for exactly the non-empty prefixes of key whose
\* node is reachable and holds a value, by increasing length; it raises
\* nothing, stops at the first missing symbol, and does not need key to be
\* stored.
C9_IterPrefixes ==
    \A g \in DOMAIN gen :
        gen[g].kind = "iter_prefixes" =>
            /\ gen[g].state # "error"
            /\ gen[g].stable =>
                  /\ IsPrefix(gen[g].out, StoredPrefixes(nodes, gen[g].key))
                  /\ gen[g].state = "done" =>
                        gen[g].out = StoredPrefixes(nodes, gen[g].key)

\* iter_prefixes, after a call that changed the trie, yielded two prefixes
\* of a key that is not in the tree and stopped.
C9_Witness ==
    /\ "g1" \in DOMAIN gen
    /\ gen["g1"].kind = "iter_prefixes"
    /\ gen["g1"].state = "done"
    /\ gen["g1"].stable
    /\ Len(gen["g1"].out) = 2
    /\ ~PathExists(nodes, gen["g1"].key)
    /\ steps = MaxOps

\* C10: find_prefix(p) returns None whenever no stored key starts with p,
\* also after keys that started with p were deleted (stated for non-empty
\* p; the root, the node of the empty prefix, always exists).
C10_FindPrefixNone ==
    \A p \in Keys \ {<<>>} :
        (~\E k \in StoredKeys(nodes) : IsPrefix(p, k)) =>
            find_prefix(nodes, p).none

(***************************************************************************)
(* C11, C12: traversal order.                                              *)
(***************************************************************************)

IndexOf(s, x) == CHOOSE i \in 1..Len(s) : s[i] = x

\* k1 comes before k2 in depth-first pre-order: k1 is a proper prefix of
\* k2, or where they part k1's symbol is the earlier child.
Before(t, k1, k2) ==
    \/ IsProperPrefix(k1, k2)
    \/ \E m \in 0..(Len(k1) - 1) :
          /\ m < Len(k2)
          /\ SubSeq(k1, 1, m) = SubSeq(k2, 1, m)
          /\ k1[m + 1] # k2[m + 1]
          /\ LET c == t[SubSeq(k1, 1, m)].children
             IN IndexOf(c, k1[m + 1]) < IndexOf(c, k2[m + 1])

\* seq lists exactly the keys of S, each once, in pre-order.
IsPreOrderListing(t, seq, S) ==
    /\ Range(seq) = S
    /\ Len(seq) = Cardinality(S)
    /\ \A i, j \in 1..Len(seq) : i < j => Before(t, seq[i], seq[j])

\* C11: when p's node exists, find_prefix(p) returns exactly the stored keys
\* that have p as a prefix (p included if it holds a value), each once, as
\* full keys from the root, in depth-first pre-order; for the empty key
\* these are all stored keys; when p's node does not exist it returns None.
C11_FindPrefix ==
    op.name = "find_prefix" =>
        /\ ret = find_prefix(prev, op.key)
        /\ IF PathExists(prev, op.key)
           THEN /\ ~ret.none
                /\ IsPreOrderListing(prev, ret.keys,
                      {k \in StoredKeys(prev) : IsPrefix(op.key, k)})
                /\ op.key = <<>> => Range(ret.keys) = StoredKeys(prev)
           ELSE ret.none

\* find_prefix of a non-empty prefix that holds no value returned two keys.
C11_Witness ==
    /\ op.name = "find_prefix"
    /\ op.key # <<>>
    /\ ~HoldsValue(prev, op.key)
    /\ ~ret.none
    /\ Len(ret.keys) = 2

\* What a full traversal of kind yields when the keys come in the order ks.
Listing(t, kind, ks) ==
    [i \in 1..Len(ks) |-> Project(kind, <<ks[i], t[ks[i]].value>>)]

\* C12: after any sequence of set/delete/clear, a full traversal of a trie
\* that is not changed meanwhile, started on an empty path buffer that no
\* other traversal touches, raises nothing and yields every key that holds
\* a value exactly once and no other, in pre-order with children in the
\* order of the children map; itervalues and iteritems yield the matching
\* values and pairs in the same order, and iteration over the trie is
\* iterkeys().
C12_FullTraversal ==
    \A g \in DOMAIN gen :
        (gen[g].kind \in IterKinds /\ gen[g].stable /\ gen[g].alone) =>
            /\ gen[g].state # "error"
            /\ gen[g].state = "done" =>
                  LET items == _generator(nodes, <<>>, <<>>)
                      ks == [i \in 1..Len(items) |-> items[i][1]]
                  IN /\ IsPreOrderListing(nodes, ks, StoredKeys(nodes))
                     /\ gen[g].out = Listing(nodes, gen[g].kind, ks)
                     /\ gen[g].kind = trie_iter => gen[g].out = ks

\* iterkeys, started after a call that changed the trie, yielded b,
\* inserted first, before a and a key below a.
C12_Witness ==
    /\ "g1" \in DOMAIN gen
    /\ gen["g1"].kind = "iterkeys"
    /\ gen["g1"].state = "done"
    /\ gen["g1"].stable
    /\ gen["g1"].alone
    /\ Len(gen["g1"].out) = 3
    /\ gen["g1"].out[1] = <<"b">>
    /\ gen["g1"].out[2] = <<"a">>

(***************************************************************************)
(* C16, C17, C19: invariants of the tree.                                  *)
(***************************************************************************)

\* C16 (I1): every node's count is the number of nodes of its subtree,
\* itself included, that hold a value; the root's count is the number of
\* stored keys.
C16_CountIsSubtreeSize ==
    /\ \A p \in DOMAIN nodes :
          nodes[p].n_items =
             Cardinality({q \in DOMAIN nodes :
                             IsPrefix(p, q) /\ nodes[q].value # None})
    /\ nodes[<<>>].n_items = Cardinality(StoredKeys(nodes))

\* C17 (I2): after every set/delete/clear no node other than the root is
\* reachable without children and without a value; delete prunes the
\* ancestors it leaves childless and valueless.
C17_NoEmptyLeaf ==
    \A p \in DOMAIN nodes :
        p # <<>> => (nodes[p].children # <<>> \/ nodes[p].value # None)

\* C19: len(trie) is never negative, and delete(k) on a node that exists
\* but holds no value decrements no count.
C19_LenNeverNegative ==
    /\ nodes[<<>>].n_items >= 0
    /\ len(nodes).err = "none"
    /\ (op.name = "del" /\ PathExists(prev, op.key)
          /\ prev[op.key].value = None) =>
          \A q \in DOMAIN nodes : nodes[q].n_items = prev[q].n_items

(***************************************************************************)
(* C20: frame of the operations.                                           *)
(***************************************************************************)

ReadOps == {"get", "contains", "len", "iter_prefixes", "find_prefix"}

\* C20: set(k, v) and a successful delete(k) leave get(k2) unchanged for
\* every k2 # k, and get, contains, len, iter_prefixes and find_prefix
\* change no node, value, children map or count.
C20_Frame ==
    /\ (op.name = "set" \/ (op.name = "del" /\ err = "none")) =>
          \A k2 \in Keys \ {op.key} : getitem(nodes, k2) = getitem(prev, k2)
    /\ op.name \in ReadOps => nodes = prev

\* A delete removed a node while another key was stored.
C20_Witness ==
    /\ op.name = "del"
    /\ err = "none"
    /\ nodes # prev
    /\ \E k2 \in StoredKeys(prev) \ {op.key} : getitem(nodes, k2).err = "none"

(***************************************************************************)
(* C18: the shared path buffer.                                            *)
(***************************************************************************)

\* The sequence a traversal with a path of its own yields.
FreshTraversal(t, kind) ==
    LET g == _generator(t, <<>>, <<>>)
    IN [i \in 1..Len(g) |-> Project(kind, g[i])]

\* C18: a traversal started by iterkeys/itervalues/iteritems yields the
\* same sequence as a traversal with a fresh path, also when another
\* traversal is partially consumed at the same time or was abandoned.
C18_SharedBufferEquivalent ==
    \A g \in DOMAIN gen :
        (gen[g].kind \in IterKinds /\ gen[g].stable /\ gen[g].state = "done") =>
            gen[g].out = FreshTraversal(nodes, gen[g].kind)

(***************************************************************************)
(* utils.py: edits_1, edits_n.  A str is the sequence of its characters.   *)
(***************************************************************************)

MaxWord == 2
MaxDist == 2

\* `letters` of edits_1.
letters ==
    <<"a", "b", "c", "d", "e", "f", "g", "h", "i", "j", "k", "l", "m",
      "n", "o", "p", "q", "r", "s", "t", "u", "v", "w", "x", "y", "z">>

\* The words given to edits_1 and edits_n, and the distances and values of
\* k given to edits_n.
Words == UNION {[1..n -> Symbols] : n \in 0..MaxWord}
Dists == 0..MaxDist

\* splits: the indices i of (word[:i], word[i:]).
Splits(word) == 0..Len(word)
L(word, i) == SubSeq(word, 1, i)
R(word, i) == SubSeq(word, i + 1, Len(word))

deletes(word) ==
    {L(word, i) \o Tail(R(word, i)) : i \in {j \in Splits(word) : R(word, j) # <<>>}}

transposes(word) ==
    {L(word, i) \o <<R(word, i)[2], R(word, i)[1]>>
        \o SubSeq(R(word, i), 3, Len(R(word, i))) :
        i \in {j \in Splits(word) : Len(R(word, j)) > 1}}

replaces(word) ==
    {L(word, ic[1]) \o <<ic[2]>> \o Tail(R(word, ic[1])) :
        ic \in {j \in Splits(word) : R(word, j) # <<>>} \X Range(letters)}

inserts(word) ==
    {L(word, ic[1]) \o <<ic[2]>> \o R(word, ic[1]) :
        ic \in Splits(word) \X Range(letters)}

\* edits_1: set(deletes + transposes + replaces + inserts)
edits_1(word) ==
    deletes(word) \cup transposes(word) \cup replaces(word) \cup inserts(word)

\* A tuple whose order is not fixed (it is built by iterating over sets) is
\* the set of its elements, each a pair <<origin, string>>: the origin of
\* an element of new_words is the chain of words w1 it was generated
\* through, so that a string generated twice is there twice.  A set, or a
\* tuple made from a set, holds each string once, with the empty origin.
Occurrences(S) == {<< <<>>, w >> : w \in S}

\* The strings of a tuple.
Strings(T) == {e[2] : e \in T}

\* Variant of the recursion of edits_n that never collapses duplicates.
RECURSIVE edits_n_raw(_, _, _)
edits_n_raw(word, dist, k) ==
    IF k = 1 THEN Occurrences(edits_1(word))
    ELSE UNION {{<< <<w1>> \o e[1], e[2] >> : e \in edits_n_raw(w1, dist, k - 1)} :
                  w1 \in edits_1(word)}

\* The body of edits_n after its assertion, for k >= 1: edits_1's set when
\* k = 1, else the tuple of every w2 of edits_n(w1, dist, k - 1) for every
\* w1 of edits_1(word), made a set only when k = dist.
RECURSIVE edits_n_rec(_, _, _)
edits_n_rec(word, dist, k) ==
    IF k = 1 THEN Occurrences(edits_1(word))
    ELSE LET new_words ==
                UNION {{<< <<w1>> \o e[1], e[2] >> :
                            e \in edits_n_rec(w1, dist, k - 1)} :
                          w1 \in edits_1(word)}
         IN IF k = dist THEN Occurrences(Strings(new_words)) ELSE new_words

\* edits_n(word, dist, k) with k given.
edits_n_k(word, dist, k) ==
    IF ~(dist > 0 /\ k > 0)
    THEN [err |-> "AssertionError", ret |-> {}]
    ELSE [err |-> "none", ret |-> edits_n_rec(word, dist, k)]

\* edits_n(word, dist) with k left at None: k = dist.
edits_n(word, dist) == edits_n_k(word, dist, dist)

InitEdits ==
    /\ nodes = (<<>> :> NewNode)
    /\ prev = nodes
    /\ \E w \in Words, d \in Dists : op = [name |-> "input", key |-> w, value |-> d]
    /\ err = "none"
    /\ ret = None
    /\ steps = 0
    /\ only_sets = TRUE
    /\ buf = <<>>
    /\ gen = <<>>

Edits1 ==
    /\ op.name = "input"
    /\ op' = [op EXCEPT !.name = "edits_1"]
    /\ ret' = edits_1(op.key)
    /\ err' = "none"
    /\ UNCHANGED <<nodes, prev, steps, only_sets, buf, gen>>

EditsN ==
    /\ op.name = "input"
    /\ op' = [op EXCEPT !.name = "edits_n"]
    /\ LET r == edits_n(op.key, op.value)
       IN /\ ret' = r.ret
          /\ err' = r.err
    /\ UNCHANGED <<nodes, prev, steps, only_sets, buf, gen>>

\* edits_n(word, dist, k) called with a k of the caller's choice; steps
\* records k.
EditsNK ==
    /\ op.name = "input"
    /\ op' = [op EXCEPT !.name = "edits_n_k"]
    /\ \E k \in Dists :
          LET r == edits_n_k(op.key, op.value, k)
          IN /\ ret' = r.ret
             /\ err' = r.err
             /\ steps' = k
    /\ UNCHANGED <<nodes, prev, only_sets, buf, gen>>

NextEdits == Edits1 \/ EditsN \/ EditsNK

SpecEdits == InitEdits /\ [][NextEdits]_vars

\* The strings one deletion, one transposition of adjacent characters, one
\* substitution by a different symbol or one insertion away from word.
OneEditAway(word) ==
    {SubSeq(word, 1, i - 1) \o SubSeq(word, i + 1, Len(word)) :
        i \in 1..Len(word)}
    \cup {[word EXCEPT ![i] = word[i + 1], ![i + 1] = word[i]] :
            i \in 1..(Len(word) - 1)}
    \cup UNION {{[word EXCEPT ![i] = c] : c \in Range(letters) \ {word[i]}} :
                  i \in 1..Len(word)}
    \cup {SubSeq(word, 1, ic[1]) \o <<ic[2]>> \o SubSeq(word, ic[1] + 1, Len(word)) :
            ic \in (0..Len(word)) \X Range(letters)}

\* C14: edits_1(word) is exactly the set of strings one deletion, one
\* adjacent transposition, one substitution by another (different) symbol
\* or one insertion away from word, and nothing else.
C14_Edits1Exact ==
    op.name = "edits_1" => ret = OneEditAway(op.key)

\* The strings reached by applying edits_1 d times in sequence.
RECURSIVE Reach(_, _)
Reach(word, d) ==
    IF d = 1 THEN edits_1(word)
    ELSE UNION {edits_1(w) : w \in Reach(word, d - 1)}

\* C15: for distance >= 1 the top-level edits_n(word, distance) returns,
\* without duplicates, exactly the strings reached by applying edits_1
\* distance times in sequence.
C15_EditsN ==
    (op.name = "edits_n" /\ op.value >= 1) =>
        /\ err = "none"
        /\ Cardinality(ret) = Cardinality(Strings(ret))
        /\ Strings(ret) = Reach(op.key, op.value)

\* edits_n with distance 2 on a word of two characters returned.
C15_Witness ==
    /\ op.name = "edits_n"
    /\ op.value = 2
    /\ Len(op.key) = 2
    /\ err = "none"
    /\ <<"z">> \o op.key \o <<"z">> \in Strings(ret)

(***************************************************************************)
(* WordCountTrie.find_within_distance, next to traversals of the same      *)
(* process.  KeyFactory = ''.join leaves a sequence of characters as it is.*)
(***************************************************************************)

MaxFinds == 1
MaxFindDist == 1

\* set(k for k in self if k in edits_n(key, dist)): iter(self) is
\* iterkeys(), whose _generator runs on the shared buffer b; edits_n is
\* called once per yielded key, so an empty traversal never calls it.  When
\* edits_n raises, the traversal is dropped at its first yield and the
\* buffer keeps that key's path; an exhausted traversal has popped
\* everything it appended.
find_within_distance(t, b, key, dist) ==
    LET g == _generator(t, <<>>, b)
    IN IF g = <<>>
       THEN [err |-> "none", ret |-> {}, buf |-> b]
       ELSE LET e == edits_n(key, dist)
            IN IF e.err # "none"
               THEN [err |-> e.err, ret |-> None, buf |-> g[1][1]]
               ELSE [err |-> "none",
                     ret |-> {g[i][1] : i \in {j \in 1..Len(g) :
                                                g[j][1] \in Strings(e.ret)}},
                     buf |-> b]

InitFind ==
    /\ nodes \in InitTries
    /\ prev = nodes
    /\ op = [name |-> "init", key |-> <<>>, value |-> None]
    /\ err = "none"
    /\ ret = None
    /\ steps = 0
    /\ only_sets = TRUE
    /\ buf = <<>>
    /\ gen = <<>>

FindWithinDistance ==
    /\ steps < MaxFinds
    /\ \E key \in Words, dist \in 0..MaxFindDist :
        LET r == find_within_distance(nodes, buf, key, dist)
        IN /\ op' = [name |-> "find_within_distance", key |-> key, value |-> dist]
           /\ err' = r.err
           /\ ret' = r.ret
           /\ buf' = r.buf
           /\ gen' = Disturb(gen, "", buf, r.buf)
    /\ steps' = steps + 1
    /\ prev' = nodes
    /\ UNCHANGED <<nodes, only_sets>>

\* it = iter(t) is t.iterkeys().
NextFind ==
    \/ GenStart("g1", trie_iter, <<>>)
    \/ GenNext("g1")
    \/ GenDrop("g1")
    \/ FindWithinDistance

SpecFind == InitFind /\ [][NextFind]_vars

\* C13: find_within_distance(word, distance) returns exactly the set of
\* strings that are in edits_n(word, distance) and are stored as complete
\* keys (holding a value) in the trie; a valueless prefix is never returned.
C13_FindWithinDistance ==
    (op.name = "find_within_distance" /\ op.value >= 1) =>
        /\ err = "none"
        /\ ret = {w \in Strings(edits_n(op.key, op.value).ret) : HoldsValue(nodes, w)}

====
